---- MODULE Spec2Model ----
(***************************************************************************)
(* Model of the four design-pattern exercises of the repository:           *)
(*   4_behavioral/02_strategy          (WorkflowTask, TaskProcessor         *)
(*                                      variants, TaskManager)              *)
(*   2_creational/02_abstract_factory  (get_equipment_factory and the       *)
(*                                      equipment families)                 *)
(*   1_principles/02_solid/02_ocp      (shapes and AreaCalculator)          *)
(*   1_principles/02_solid/05_dip      (databases and UserService)          *)
(* Each exercise is an independent program, so each has its own            *)
(* specification over its own variables; the variables of the other        *)
(* exercises stay at their initial value.                                   *)
(***************************************************************************)
EXTENDS Integers, Sequences, FiniteSets, TLC

VARIABLES
    lastOp,      \* the call the last step performed: [op, arg]
    \* ---- strategy exercise ----
    task,        \* the WorkflowTask the caller holds
    strategy,    \* TaskManager.strategy
    result,      \* outcome of the last process_task / execute_task call
    clock,       \* wall clock (time.time() / datetime.now()), in ticks of 0.1 s
    \* ---- abstract factory exercise ----
    prevCall,    \* the get_equipment_factory call before the last one
    lastCall,    \* the last get_equipment_factory call (argument and outcome)
    weapon,      \* product of the last create_weapon() on lastCall's factory
    armor,       \* product of the last create_armor() on lastCall's factory
    \* ---- open/closed exercise ----
    shapes,      \* the list handed to AreaCalculator.total_area
    total,       \* what total_area returned for it
    \* ---- dependency inversion exercise ----
    database,    \* UserService.database
    dbLog,       \* per database object: the calls it has received, in order
    saved        \* the last save_user call: its arguments and return value

strategyVars == <<task, strategy, result, clock>>
factoryVars  == <<prevCall, lastCall, weapon, armor>>
areaVars     == <<shapes, total>>
dipVars      == <<database, dbLog, saved>>
vars == <<lastOp, strategyVars, factoryVars, areaVars, dipVars>>

\* Python's None as the value of a reference (TaskManager.strategy)
None == "None"

\* an optional value: <<>> is Python's None, <<x>> is the value x
Unset == <<>>
Some(x) == <<x>>
Get(o) == o[1]

(***************************************************************************)
(* Bounds                                                                  *)
(***************************************************************************)
\* the clock is not advanced beyond this tick
MaxClock == 11
\* extra ticks a call may take on top of its sleep
MaxJitter == 1

(***************************************************************************)
(* Strategy exercise                                                       *)
(***************************************************************************)
\* TaskPriority enum values
LOW == "low"
MEDIUM == "medium"
HIGH == "high"
URGENT == "urgent"
TaskPriority == {LOW, MEDIUM, HIGH, URGENT}

\* task inputs: titles shorter than 3 characters and of 3 characters, empty
\* and non-empty descriptions
Titles == {"ab", "abc"}
Descriptions == {"", "Critical fix needed"}

\* WorkflowTask.__init__
WorkflowTask(title, priority, description, now) ==
    [title |-> title, priority |-> priority, description |-> description,
     created_at |-> now, completed_at |-> Unset]

\* WorkflowTask.mark_completed: unconditional write of datetime.now()
mark_completed(t, now) == [t EXCEPT !.completed_at = Some(now)]

\* the concrete TaskProcessor classes
Processors == {"UrgentTaskProcessor", "StandardTaskProcessor", "BackgroundTaskProcessor"}

\* time.sleep() of each process_task, in ticks of 0.1 s
SleepUrgent == 0
SleepStandard == 10
SleepBackground == 1

\* the dict process_task returns
ResultDict(status, processing_time, strategy_used, validation_passed) ==
    [status |-> status, processing_time |-> processing_time,
     strategy_used |-> strategy_used, validation_passed |-> validation_passed]

\* a raised exception
Raised(exc, msg) == [raised |-> exc, msg |-> msg]

\* no call has returned yet
NoResult == [pending |-> TRUE]
NoCall == [pending |-> TRUE]

IsDict(r) == "status" \in DOMAIN r
IsRaised(r) == "raised" \in DOMAIN r

\* validation of UrgentTaskProcessor.process_task
UrgentValidation(t) ==
    LET v1 == IF t.priority # URGENT THEN FALSE ELSE TRUE
        v2 == IF t.description = "" THEN FALSE ELSE v1
    IN  v2

\* StandardValidation with the comparison off by one (<= for <)
StandardValidationOffByOne(t) == IF Len(t.title) <= 3 THEN FALSE ELSE TRUE

\* validation of StandardTaskProcessor.process_task
StandardValidation(t) == IF Len(t.title) < 3 THEN FALSE ELSE TRUE

\* validation of BackgroundTaskProcessor.process_task
BackgroundValidation(t) == IF t.priority = URGENT THEN FALSE ELSE TRUE

\* UrgentProcess that enforces its validation: a failed validation raises and
\* the task is left untouched
UrgentProcessEnforcing(t, start, now) ==
    IF UrgentValidation(t)
    THEN [task |-> mark_completed(t, now),
          ret  |-> ResultDict("completed", now - start, "urgent", TRUE)]
    ELSE [task |-> t, ret |-> Raised("ValueError", "Validation failed")]

\* UrgentTaskProcessor.process_task: start is time.time() on entry, now is
\* datetime.now() inside mark_completed.  Yields the mutated task and the
\* returned dict.
UrgentProcess(t, start, now) ==
    LET validation_passed == UrgentValidation(t)
        done == mark_completed(t, now)
    IN  [task |-> done,
         ret  |-> ResultDict("completed", Get(done.completed_at) - start,
                             "urgent", validation_passed)]

\* StandardTaskProcessor.process_task
StandardProcess(t, start, now) ==
    LET validation_passed == StandardValidation(t)
        done == mark_completed(t, now)
    IN  [task |-> done,
         ret  |-> ResultDict("completed", Get(done.completed_at) - start,
                             "standard", validation_passed)]

\* BackgroundTaskProcessor.process_task
BackgroundProcess(t, start, now) ==
    LET validation_passed == BackgroundValidation(t)
        done == mark_completed(t, now)
    IN  [task |-> done,
         ret  |-> ResultDict("completed", Get(done.completed_at) - start,
                             "background", validation_passed)]

\* the time.sleep() a processor performs between time.time() and mark_completed
SleepOf(p) ==
    CASE p = "UrgentTaskProcessor" -> SleepUrgent
      [] p = "StandardTaskProcessor" -> SleepStandard
      [] p = "BackgroundTaskProcessor" -> SleepBackground

\* dynamic dispatch of processor.process_task(task)
process_task(p, t, start, now) ==
    CASE p = "UrgentTaskProcessor" -> UrgentProcess(t, start, now)
      [] p = "StandardTaskProcessor" -> StandardProcess(t, start, now)
      [] p = "BackgroundTaskProcessor" -> BackgroundProcess(t, start, now)

\* execute_task that returns None without raising when no strategy is bound
execute_task_silent(s, t, start, now) ==
    IF s = None
    THEN [task |-> t, ret |-> NoResult]
    ELSE process_task(s, t, start, now)

\* execute_task that delegates to a hard-wired processor instead of the bound one
execute_task_hardwired(s, t, start, now) ==
    IF s = None
    THEN [task |-> t, ret |-> Raised("ValueError", "No strategy set")]
    ELSE process_task("StandardTaskProcessor", t, start, now)

\* TaskManager.execute_task: raises when no strategy is bound, else delegates
execute_task(s, t, start, now) ==
    IF s = None
    THEN [task |-> t, ret |-> Raised("ValueError", "No strategy set")]
    ELSE process_task(s, t, start, now)

\* the ticks a call bound to s may take: its sleep plus scheduling jitter;
\* a call that raises before delegating takes no sleep
Elapsed(s) ==
    LET base == IF s = None THEN 0 ELSE SleepOf(s)
    IN  {d \in base .. base + MaxJitter : clock + d <= MaxClock}

\* a call as recorded in lastOp: the operation and the object it was given
\* or called on
Call(op, arg) == [op |-> op, arg |-> arg]

\* --- actions ---

\* the caller constructs a new task: WorkflowTask(title, priority, description)
NewTask ==
    \E title \in Titles, priority \in TaskPriority, description \in Descriptions :
        /\ task' = WorkflowTask(title, priority, description, clock)
        /\ lastOp' = Call("WorkflowTask", None)
        /\ UNCHANGED <<strategy, result, clock>>
        /\ UNCHANGED <<factoryVars, areaVars, dipVars>>

\* manager.set_strategy(p)
SetStrategy ==
    \E p \in Processors :
        /\ strategy' = p
        /\ lastOp' = Call("set_strategy", p)
        /\ UNCHANGED <<task, result, clock>>
        /\ UNCHANGED <<factoryVars, areaVars, dipVars>>

\* manager.execute_task(task)
ExecuteTask ==
    /\ \E d \in Elapsed(strategy) :
          LET out == execute_task(strategy, task, clock, clock + d)
          IN  /\ task' = out.task
              /\ result' = out.ret
              /\ clock' = clock + d
    /\ lastOp' = Call("execute_task", None)
    /\ UNCHANGED strategy
    /\ UNCHANGED <<factoryVars, areaVars, dipVars>>

\* processor.process_task(task) called directly on a processor object
ProcessTask ==
    /\ \E p \in Processors :
          \E d \in Elapsed(p) :
              LET out == process_task(p, task, clock, clock + d)
              IN  /\ task' = out.task
                  /\ result' = out.ret
                  /\ clock' = clock + d
                  /\ lastOp' = Call("process_task", p)
    /\ UNCHANGED strategy
    /\ UNCHANGED <<factoryVars, areaVars, dipVars>>

\* time passes between two calls
Tick ==
    /\ clock < MaxClock
    /\ clock' = clock + 1
    /\ lastOp' = Call("tick", None)
    /\ UNCHANGED <<task, strategy, result>>
    /\ UNCHANGED <<factoryVars, areaVars, dipVars>>

\* TaskManager() or TaskManager(p), and a first task
StrategyInit ==
    /\ \E title \in Titles, priority \in TaskPriority, description \in Descriptions :
          task = WorkflowTask(title, priority, description, 0)
    /\ strategy \in Processors \cup {None}
    /\ result = NoResult
    /\ clock = 0
    /\ lastOp = Call("TaskManager", strategy)
    \* the other exercises are not running
    /\ prevCall = NoCall /\ lastCall = NoCall /\ weapon = None /\ armor = None
    /\ shapes = <<>> /\ total = <<>>
    /\ database = None /\ dbLog = <<>> /\ saved = NoCall

StrategyNext ==
    \/ NewTask
    \/ SetStrategy
    \/ ExecuteTask
    \/ ProcessTask
    \/ Tick

SpecStrategy == StrategyInit /\ [][StrategyNext]_vars

(***************************************************************************)
(* Properties of the strategy exercise                                     *)
(***************************************************************************)
\* the step is a process_task of processor p on the caller's task, directly
\* or through a bound TaskManager
Processed(p) ==
    \/ lastOp' = Call("process_task", p)
    \/ lastOp'.op = "execute_task" /\ strategy = p

\* C1: once a task's completed_at is set, no later process_task or
\* execute_task on that task writes it again
C1_CompletedAtSetAtMostOnce ==
    [][(lastOp'.op \in {"process_task", "execute_task"} /\ task.completed_at # Unset)
          => task'.completed_at = task.completed_at]_vars

\* C2: execute_task with no strategy bound raises ValueError("No strategy
\* set"), leaves the task as it was and leaves the manager unbound
C2_NoStrategyRaises ==
    [][(lastOp'.op = "execute_task" /\ strategy = None)
          => /\ result' = Raised("ValueError", "No strategy set")
             /\ task' = task
             /\ strategy' = None]_vars

C2_Witness ==
    /\ lastOp.op = "execute_task"
    /\ strategy = None
    /\ IsRaised(result)
    /\ task.completed_at = Unset

\* C5: every process_task returns a dict with status "completed" and leaves
\* completed_at set, whatever the validation outcome
C5_ValidationNotEnforced ==
    [][\A p \in Processors :
          Processed(p) => /\ IsDict(result')
                          /\ result'.status = "completed"
                          /\ result'.validation_passed \in BOOLEAN
                          /\ task'.completed_at # Unset]_vars

C5_Witness ==
    /\ lastOp = Call("process_task", "UrgentTaskProcessor")
    /\ IsDict(result)
    /\ result.validation_passed = FALSE
    /\ result.status = "completed"
    /\ task.completed_at # Unset

\* the strategy_used tag of each processor
Tag(p) ==
    CASE p = "UrgentTaskProcessor" -> "urgent"
      [] p = "StandardTaskProcessor" -> "standard"
      [] p = "BackgroundTaskProcessor" -> "background"

\* C9: set_strategy binds its argument, nothing else changes the binding,
\* and execute_task returns the bound processor's result, tagged with that
\* processor's strategy_used
C9_DelegatesToBoundStrategy ==
    [][/\ lastOp'.op = "set_strategy" => strategy' = lastOp'.arg
       /\ lastOp'.op # "set_strategy" => strategy' = strategy
       /\ (lastOp'.op = "execute_task" /\ strategy # None)
             => /\ IsDict(result')
                /\ result'.strategy_used = Tag(strategy)
                /\ result' = process_task(strategy, task, clock, clock').ret]_vars

C9_Witness ==
    /\ lastOp.op = "execute_task"
    /\ strategy = "BackgroundTaskProcessor"
    /\ IsDict(result)
    /\ result.strategy_used = "background"

\* the validation predicate the specification gives for each processor
Predicate(p, t) ==
    CASE p = "UrgentTaskProcessor" -> (t.priority = URGENT /\ Len(t.description) > 0)
      [] p = "StandardTaskProcessor" -> Len(t.title) >= 3
      [] p = "BackgroundTaskProcessor" -> t.priority # URGENT

\* C10: validation_passed is the processor's predicate over the task as it
\* was when the call started
C10_ValidationPredicates ==
    [][\A p \in Processors :
          Processed(p) => /\ IsDict(result')
                          /\ result'.validation_passed = Predicate(p, task)]_vars

C10_Witness ==
    /\ lastOp = Call("process_task", "StandardTaskProcessor")
    /\ IsDict(result)
    /\ Len(task.title) = 3
    /\ task.priority # URGENT
    /\ result.validation_passed = TRUE

(***************************************************************************)
(* Abstract factory exercise                                               *)
(***************************************************************************)
\* A Python str is modelled as the sequence of its characters.
UpperLetters == <<"A","B","C","D","E","F","G","H","I","J","K","L","M",
                  "N","O","P","Q","R","S","T","U","V","W","X","Y","Z">>
LowerLetters == <<"a","b","c","d","e","f","g","h","i","j","k","l","m",
                  "n","o","p","q","r","s","t","u","v","w","x","y","z">>

\* the lower-case letter of each upper-case letter
UpperToLower ==
    [c \in {UpperLetters[i] : i \in 1..26} |->
        LowerLetters[CHOOSE i \in 1..26 : UpperLetters[i] = c]]

\* str.lower() on one character: an upper-case letter becomes its lower-case
\* letter, every other character is kept
LowerChar(c) == IF c \in DOMAIN UpperToLower THEN UpperToLower[c] ELSE c

\* str.lower()
lower(str) == [i \in 1..Len(str) |-> LowerChar(str[i])]

\* the keys of charclass_to_factory
warrior == <<"w","a","r","r","i","o","r">>
mage == <<"m","a","g","e">>
archer == <<"a","r","c","h","e","r">>

\* the dict of get_equipment_factory: class name -> factory class
charclass_to_factory ==
    [k \in {warrior, mage, archer} |->
        CASE k = warrior -> "WarriorEquipmentFactory"
          [] k = mage -> "MageEquipmentFactory"
          [] k = archer -> "ArcherEquipmentFactory"]

\* a returned object of class cls
Returned(cls) == [factory |-> cls]
IsFactory(r) == "factory" \in DOMAIN r

\* the f-string f"Unknown character class: {character_class}": the literal
\* followed by the characters of the argument
UnknownClassMessage(str) == <<"Unknown character class: ">> \o str

\* get_equipment_factory whose error message carries the normalized argument
get_equipment_factory_lowered_message(character_class) ==
    IF lower(character_class) \notin DOMAIN charclass_to_factory
    THEN Raised("ValueError", UnknownClassMessage(lower(character_class)))
    ELSE Returned(charclass_to_factory[lower(character_class)])

\* get_equipment_factory whose membership test is on the argument as given
get_equipment_factory_case_sensitive(character_class) ==
    IF character_class \notin DOMAIN charclass_to_factory
    THEN Raised("ValueError", UnknownClassMessage(character_class))
    ELSE Returned(charclass_to_factory[lower(character_class)])

\* get_equipment_factory(character_class)
get_equipment_factory(character_class) ==
    IF lower(character_class) \notin DOMAIN charclass_to_factory
    THEN Raised("ValueError", UnknownClassMessage(character_class))
    ELSE Returned(charclass_to_factory[lower(character_class)])

\* create_weapon in which the mage factory hands out the warrior's weapon
create_weapon_mixed(f) ==
    CASE f = "WarriorEquipmentFactory" -> "Sword"
      [] f = "MageEquipmentFactory" -> "Sword"
      [] f = "ArcherEquipmentFactory" -> "Bow"

\* create_weapon() of the three concrete factories: the class of the product
create_weapon(f) ==
    CASE f = "WarriorEquipmentFactory" -> "Sword"
      [] f = "MageEquipmentFactory" -> "Staff"
      [] f = "ArcherEquipmentFactory" -> "Bow"

\* create_armor() of the three concrete factories
create_armor(f) ==
    CASE f = "WarriorEquipmentFactory" -> "HeavyArmor"
      [] f = "MageEquipmentFactory" -> "LightRobe"
      [] f = "ArcherEquipmentFactory" -> "LeatherArmor"

\* Weapon.damage() of Sword, Staff, Bow
damage(w) ==
    CASE w = "Sword" -> 80
      [] w = "Staff" -> 40
      [] w = "Bow" -> 60

\* Armor.defense() of HeavyArmor, LightRobe, LeatherArmor
defense(a) ==
    CASE a = "HeavyArmor" -> 50
      [] a = "LightRobe" -> 15
      [] a = "LeatherArmor" -> 25

\* get_name(): self.__class__.__name__
get_name(product) == product

\* --- inputs ---
\* at most this many characters of an input are upper-cased (or all of them)
MaxUpper == 1

\* the upper-case form of a character, used to build inputs
UpperChar(c) ==
    IF \E i \in 1..26 : LowerLetters[i] = c
    THEN UpperLetters[CHOOSE i \in 1..26 : LowerLetters[i] = c]
    ELSE c

\* the words inputs are built from: the three class names and unsupported ones
BaseWords ==
    {warrior, mage, archer,
     <<"i","n","v","a","l","i","d">>, <<"m","a","g">>, <<"m","a","g","e"," ">>, <<>>}

\* the case variants of w with the positions of U upper-cased
Variants(w) ==
    {[i \in 1..Len(w) |-> IF i \in U THEN UpperChar(w[i]) ELSE w[i]] :
        U \in {V \in SUBSET (1..Len(w)) : Cardinality(V) <= MaxUpper \/ V = 1..Len(w)}}

ClassInputs == UNION {Variants(w) : w \in BaseWords}

\* --- actions ---

\* factory = get_equipment_factory(s); the products held are those of the
\* factory in hand, so a new factory starts with none
GetFactory ==
    \E s \in ClassInputs :
        /\ prevCall' = lastCall
        /\ lastCall' = [arg |-> s, out |-> get_equipment_factory(s)]
        /\ weapon' = None
        /\ armor' = None
        /\ lastOp' = Call("get_equipment_factory", None)
        /\ UNCHANGED <<strategyVars, areaVars, dipVars>>

\* weapon = factory.create_weapon()
CreateWeapon ==
    /\ lastCall # NoCall
    /\ IsFactory(lastCall.out)
    /\ weapon' = create_weapon(lastCall.out.factory)
    /\ lastOp' = Call("create_weapon", lastCall.out.factory)
    /\ UNCHANGED <<prevCall, lastCall, armor>>
    /\ UNCHANGED <<strategyVars, areaVars, dipVars>>

\* armor = factory.create_armor()
CreateArmor ==
    /\ lastCall # NoCall
    /\ IsFactory(lastCall.out)
    /\ armor' = create_armor(lastCall.out.factory)
    /\ lastOp' = Call("create_armor", lastCall.out.factory)
    /\ UNCHANGED <<prevCall, lastCall, weapon>>
    /\ UNCHANGED <<strategyVars, areaVars, dipVars>>

\* no factory requested yet
FactoryInit ==
    /\ prevCall = NoCall /\ lastCall = NoCall /\ weapon = None /\ armor = None
    /\ lastOp = Call("init", None)
    \* the other exercises are not running
    /\ task = None /\ strategy = None /\ result = NoResult /\ clock = 0
    /\ shapes = <<>> /\ total = <<>>
    /\ database = None /\ dbLog = <<>> /\ saved = NoCall

FactoryNext ==
    \/ GetFactory
    \/ CreateWeapon
    \/ CreateArmor

SpecFactory == FactoryInit /\ [][FactoryNext]_vars

(***************************************************************************)
(* Properties of the abstract factory exercise                             *)
(***************************************************************************)
Made(c) == c # NoCall

\* C3: an argument whose lower-cased form is not a class name yields no
\* factory but ValueError("Unknown character class: " + argument as given)
C3_UnknownClassVerbatim ==
    \A c \in {prevCall, lastCall} :
        (Made(c) /\ lower(c.arg) \notin {warrior, mage, archer})
            => /\ ~IsFactory(c.out)
               /\ c.out = Raised("ValueError", <<"Unknown character class: ">> \o c.arg)

C3_Witness ==
    /\ Made(lastCall)
    /\ lower(lastCall.arg) = <<"i","n","v","a","l","i","d">>
    /\ lastCall.arg # lower(lastCall.arg)
    /\ IsRaised(lastCall.out)

\* C4: two arguments equal after lower-casing to a class name both yield a
\* factory, of the same class, which is the class registered for that name
C4_CaseInsensitive ==
    (Made(prevCall) /\ Made(lastCall)
        /\ lower(prevCall.arg) = lower(lastCall.arg)
        /\ lower(lastCall.arg) \in {warrior, mage, archer})
    => /\ IsFactory(prevCall.out)
       /\ IsFactory(lastCall.out)
       /\ prevCall.out.factory = lastCall.out.factory
       /\ lastCall.out.factory = charclass_to_factory[lower(lastCall.arg)]

C4_Witness ==
    /\ Made(prevCall) /\ Made(lastCall)
    /\ prevCall.arg = <<"W","A","R","R","I","O","R">>
    /\ lastCall.arg = warrior
    /\ IsFactory(prevCall.out) /\ IsFactory(lastCall.out)
    /\ prevCall.out.factory = lastCall.out.factory

\* the family each class name must get: weapon and its damage, armor and
\* its defense
Family(cls) ==
    CASE cls = warrior -> <<"Sword", 80, "HeavyArmor", 50>>
      [] cls = mage -> <<"Staff", 40, "LightRobe", 15>>
      [] cls = archer -> <<"Bow", 60, "LeatherArmor", 25>>

\* C6: create_weapon and create_armor of a returned factory always give a
\* product, and the products are those of the family of the selected class
C6_MatchedFamily ==
    [][/\ lastOp'.op = "create_weapon" => weapon' # None
       /\ lastOp'.op = "create_armor" => armor' # None
       /\ (weapon' # None \/ armor' # None)
            => /\ Made(lastCall')
               /\ IsFactory(lastCall'.out)
               /\ LET fam == Family(lower(lastCall'.arg))
                  IN  /\ weapon' # None =>
                            <<get_name(weapon'), damage(weapon')>> = <<fam[1], fam[2]>>
                      /\ armor' # None =>
                            <<get_name(armor'), defense(armor')>> = <<fam[3], fam[4]>>]_vars

C6_Witness ==
    /\ Made(lastCall)
    /\ lastCall.arg = <<"M","A","G","E">>
    /\ weapon = "Staff"
    /\ armor = "LightRobe"

(***************************************************************************)
(* Dependency inversion exercise                                           *)
(***************************************************************************)
\* the concrete Database classes; the module creates one object of each
Databases == {"MySQLDatabase", "PostgreSQLDatabase"}

\* the variant name each class writes into its confirmations
VariantName(db) ==
    CASE db = "MySQLDatabase" -> "MySQL"
      [] db = "PostgreSQLDatabase" -> "PostgreSQL"

\* MySQLDatabase.connect / PostgreSQLDatabase.connect
connect(db) == "Connected to " \o VariantName(db)

\* MySQLDatabase.save / PostgreSQLDatabase.save
save(db, user_id, name) ==
    "Saved " \o user_id \o ": " \o name \o " to " \o VariantName(db)

\* the calls a database object receives
ConnectCall == <<"connect">>
SaveCall(user_id, name) == <<"save", user_id, name>>

\* save_user that saves before it connects
save_user_save_first(db, log, user_id, name) ==
    LET r1 == save(db, user_id, name) \o "\n"
        log1 == [log EXCEPT ![db] = Append(@, SaveCall(user_id, name))]
        r2 == r1 \o connect(db)
        log2 == [log1 EXCEPT ![db] = Append(@, ConnectCall)]
    IN  [log |-> log2, ret |-> r2]

\* UserService.save_user on a service whose database is db: the calls it
\* makes are appended to the log, ret is the returned string
save_user(db, log, user_id, name) ==
    LET r1 == connect(db) \o "\n"
        log1 == [log EXCEPT ![db] = Append(@, ConnectCall)]
        r2 == r1 \o save(db, user_id, name)
        log2 == [log1 EXCEPT ![db] = Append(@, SaveCall(user_id, name))]
    IN  [log |-> log2, ret |-> r2]

\* --- inputs and bounds ---
UserIds == {"user1", "user2"}
Names == {"Bob", "Charlie"}

\* no more than this many calls are logged over all database objects
MaxLog == 4

LoggedCalls(log) == Len(log["MySQLDatabase"]) + Len(log["PostgreSQLDatabase"])

\* --- actions ---

\* service = UserService(db)
NewService ==
    \E db \in Databases :
        /\ database' = db
        /\ lastOp' = Call("UserService", db)
        /\ UNCHANGED <<dbLog, saved>>
        /\ UNCHANGED <<strategyVars, factoryVars, areaVars>>

\* service.save_user(user_id, name)
SaveUser ==
    /\ LoggedCalls(dbLog) + 2 <= MaxLog
    /\ \E user_id \in UserIds, name \in Names :
          LET out == save_user(database, dbLog, user_id, name)
          IN  /\ dbLog' = out.log
              /\ saved' = [user_id |-> user_id, name |-> name, ret |-> out.ret]
    /\ lastOp' = Call("save_user", database)
    /\ UNCHANGED database
    /\ UNCHANGED <<strategyVars, factoryVars, areaVars>>

\* db.connect() called on a database object directly
DirectConnect ==
    /\ LoggedCalls(dbLog) + 1 <= MaxLog
    /\ \E db \in Databases :
          /\ dbLog' = [dbLog EXCEPT ![db] = Append(@, ConnectCall)]
          /\ lastOp' = Call("connect", db)
    /\ UNCHANGED <<database, saved>>
    /\ UNCHANGED <<strategyVars, factoryVars, areaVars>>

\* db.save(user_id, name) called on a database object directly
DirectSave ==
    /\ LoggedCalls(dbLog) + 1 <= MaxLog
    /\ \E db \in Databases, user_id \in UserIds, name \in Names :
          /\ dbLog' = [dbLog EXCEPT ![db] = Append(@, SaveCall(user_id, name))]
          /\ lastOp' = Call("save", db)
    /\ UNCHANGED <<database, saved>>
    /\ UNCHANGED <<strategyVars, factoryVars, areaVars>>

\* two fresh database objects and a service constructed on one of them
DipInit ==
    /\ database \in Databases
    /\ dbLog = [db \in Databases |-> <<>>]
    /\ saved = NoCall
    /\ lastOp = Call("UserService", database)
    \* the other exercises are not running
    /\ task = None /\ strategy = None /\ result = NoResult /\ clock = 0
    /\ prevCall = NoCall /\ lastCall = NoCall /\ weapon = None /\ armor = None
    /\ shapes = <<>> /\ total = <<>>

DipNext ==
    \/ NewService
    \/ SaveUser
    \/ DirectConnect
    \/ DirectSave

SpecDip == DipInit /\ [][DipNext]_vars

(***************************************************************************)
(* Properties of the dependency inversion exercise                         *)
(***************************************************************************)
\* C8: save_user calls connect() once and then save(user_id, name) once on
\* the injected database and on no other, and returns
\* "Connected to <Variant>\nSaved <user_id>: <name> to <Variant>" of that database
C8_SaveUserUsesInjectedDatabase ==
    [][lastOp'.op = "save_user" =>
          /\ database' = database
          /\ dbLog'[database] =
                 dbLog[database] \o <<<<"connect">>, <<"save", saved'.user_id, saved'.name>>>>
          /\ \A other \in Databases \ {database} : dbLog'[other] = dbLog[other]
          /\ \E v \in {"MySQL", "PostgreSQL"} :
                /\ (v = "MySQL") <=> (database = "MySQLDatabase")
                /\ saved'.ret = "Connected to " \o v \o "\nSaved " \o saved'.user_id
                                   \o ": " \o saved'.name \o " to " \o v]_vars

C8_Witness ==
    /\ lastOp = Call("save_user", "PostgreSQLDatabase")
    /\ saved # NoCall
    /\ saved.ret = "Connected to PostgreSQL\nSaved user2: Charlie to PostgreSQL"
    /\ Len(dbLog["PostgreSQLDatabase"]) = 2
    /\ Len(dbLog["MySQLDatabase"]) > 0

(***************************************************************************)
(* Open/closed exercise                                                    *)
(***************************************************************************)
(* Python numbers.  Circle.calculate_area multiplies the float literal     *)
(* 3.14, so areas and their sums are IEEE-754 binary64 values, and each    *)
(* float operation rounds its exact result to 53 significant bits, ties    *)
(* to even.  Every value that occurs here is a non-negative multiple of    *)
(* 2^-51; a number is held as that multiple, an integer written in three   *)
(* limbs <<l0, l1, l2>> of 20 bits: value = (l0 + l1*2^20 + l2*2^40) * 2^-51 *)
(* (the top limb is not limited to 20 bits).                               *)
(***************************************************************************)
LimbBase == 2 ^ 20

\* carry propagation into the limb form
Norm(x) ==
    LET c0 == x[1] \div LimbBase
        l1 == x[2] + c0
        c1 == l1 \div LimbBase
    IN  <<x[1] % LimbBase, l1 % LimbBase, x[3] + c1>>

\* the exact sum and the exact product by a small integer
AddExact(x, y) == Norm(<<x[1] + y[1], x[2] + y[2], x[3] + y[3]>>)
MulExact(x, k) == Norm(<<x[1] * k, x[2] * k, x[3] * k>>)

RECURSIVE BitLenInt(_)
BitLenInt(n) == IF n = 0 THEN 0 ELSE 1 + BitLenInt(n \div 2)

\* number of significant bits of the multiple
BitLength(x) ==
    IF x[3] > 0 THEN 40 + BitLenInt(x[3])
    ELSE IF x[2] > 0 THEN 20 + BitLenInt(x[2])
    ELSE BitLenInt(x[1])

\* binary64 rounding: keep 53 significant bits, round to nearest, ties to even
Round53(x) ==
    LET drop == BitLength(x) - 53
    IN  IF drop <= 0 THEN x
        ELSE LET unit == 2 ^ drop
                 rem == x[1] % unit
                 odd == (x[1] \div unit) % 2 = 1
                 up == rem * 2 > unit \/ (rem * 2 = unit /\ odd)
             IN  Norm(<<x[1] - rem + (IF up THEN unit ELSE 0), x[2], x[3]>>)

\* float + float (an int operand converts exactly) and float * int
FloatAdd(x, y) == Round53(AddExact(x, y))
FloatMul(x, k) == Round53(MulExact(x, k))

\* the int k, and the true division k / 2 of an int by 2
FromInt(k) == <<0, 0, k * 2048>>
HalfOf(k) == <<0, 0, k * 1024>>

\* the float literal 3.14 = 0x1.91eb851eb851fp+1 = 7070651414971679 * 2^-51
Pi314 == <<754975, 754974, 6430>>

\* the shape objects
Circle(radius) == [kind |-> "Circle", radius |-> radius]
Square(side) == [kind |-> "Square", side |-> side]
Triangle(base, height) == [kind |-> "Triangle", base |-> base, height |-> height]

\* Circle.calculate_area / Square.calculate_area / Triangle.calculate_area
calculate_area(shape) ==
    CASE shape.kind = "Circle" -> FloatMul(Pi314, shape.radius * shape.radius)
      [] shape.kind = "Square" -> FromInt(shape.side * shape.side)
      [] shape.kind = "Triangle" -> HalfOf(shape.base * shape.height)

\* sum(list): starts from the int 0 and adds the elements left to right
RECURSIVE sum(_)
sum(xs) ==
    IF xs = <<>> THEN FromInt(0)
    ELSE FloatAdd(sum(SubSeq(xs, 1, Len(xs) - 1)), xs[Len(xs)])

\* total_area that leaves out the first shape of the list
total_area_skips_first(list) ==
    sum([i \in 1..(IF Len(list) = 0 THEN 0 ELSE Len(list) - 1) |->
            calculate_area(list[i + 1])])

\* AreaCalculator.total_area
total_area(list) == sum([i \in 1..Len(list) |-> calculate_area(list[i])])

\* --- inputs and bounds ---
\* the shapes lists are built from
ShapeInputs ==
    {Circle(1), Circle(2), Circle(5), Square(1), Square(4),
     Triangle(1, 1), Triangle(3, 4)}

\* longest list handed to total_area
MaxLen == 3

NotComputed == <<>>

\* --- actions ---

\* the caller appends a shape to the list
AddShape ==
    /\ Len(shapes) < MaxLen
    /\ \E sh \in ShapeInputs : shapes' = Append(shapes, sh)
    /\ total' = NotComputed
    /\ lastOp' = Call("append", None)
    /\ UNCHANGED <<strategyVars, factoryVars, dipVars>>

\* total = calculator.total_area(shapes)
TotalArea ==
    /\ total' = total_area(shapes)
    /\ lastOp' = Call("total_area", None)
    /\ UNCHANGED shapes
    /\ UNCHANGED <<strategyVars, factoryVars, dipVars>>

AreaInit ==
    /\ shapes = <<>>
    /\ total = NotComputed
    /\ lastOp = Call("init", None)
    \* the other exercises are not running
    /\ task = None /\ strategy = None /\ result = NoResult /\ clock = 0
    /\ prevCall = NoCall /\ lastCall = NoCall /\ weapon = None /\ armor = None
    /\ database = None /\ dbLog = <<>> /\ saved = NoCall

AreaNext ==
    \/ AddShape
    \/ TotalArea

SpecArea == AreaInit /\ [][AreaNext]_vars

(***************************************************************************)
(* Properties of the open/closed exercise                                  *)
(***************************************************************************)
Areas == [i \in 1..Len(shapes) |-> calculate_area(shapes[i])]

\* the arithmetic (unrounded) sum of the values at the indices of I
RECURSIVE ExactSumOver(_, _)
ExactSumOver(xs, I) ==
    IF I = {} THEN <<0, 0, 0>>
    ELSE LET i == CHOOSE j \in I : TRUE
         IN  AddExact(xs[i], ExactSumOver(xs, I \ {i}))

ExactSum(xs) == ExactSumOver(xs, 1..Len(xs))

\* the orders of a list of n elements
Orders(n) ==
    {p \in [1..n -> 1..n] : \A i, j \in 1..n : p[i] = p[j] => i = j}

Permuted(list, p) == [i \in 1..Len(list) |-> list[p[i]]]

\* total_area gives the same for every order of the list
OrderIndependent ==
    \A p \in Orders(Len(shapes)) : total_area(Permuted(shapes, p)) = total

\* the sum of every selection of the areas is a binary64 value, so that no
\* addition, in any order, rounds
NoAdditionRounds ==
    \A I \in SUBSET (1..Len(shapes)) :
        Round53(ExactSumOver(Areas, I)) = ExactSumOver(Areas, I)

\* C7 as stated: the total is exactly the arithmetic sum of the areas, 0 for
\* the empty list, and the same for every order of the list
C7_ExactOrderIndependentSum ==
    lastOp.op = "total_area"
        => /\ total = ExactSum(Areas)
           /\ shapes = <<>> => total = FromInt(0)
           /\ OrderIndependent

\* C7 amended: 0 for the empty list; exactly the arithmetic sum, and the same
\* for every order, when no addition of the areas rounds
C7_ExactSumWhenNoRounding ==
    lastOp.op = "total_area"
        => /\ shapes = <<>> => total = FromInt(0)
           /\ NoAdditionRounds => (total = ExactSum(Areas) /\ OrderIndependent)

C7_Witness ==
    /\ lastOp.op = "total_area"
    /\ shapes = <<Circle(5), Square(4), Triangle(3, 4)>>
    /\ NoAdditionRounds
    /\ total = HalfOf(201)

====
